---- MODULE Spec2Model ----
(***************************************************************************)
(* A model of postal-rs (src/src/lib.rs, src/src/error.rs): the Message    *)
(* builder and its serde wire form, the DetailsInterest builder and its    *)
(* rendering, and the Client with its four operations and the response     *)
(* handling (check_status, check_responce, handle_send).                   *)
(*                                                                         *)
(* Three specifications share the variables:                               *)
(*   SpecMessage   Message::default(), the setters, field assignment,      *)
(*                 serialization and deserialization;                      *)
(*   SpecInterest  DetailsInterest::new, the with_* setters, Into<Json>;   *)
(*   Spec          Client::new and concurrent calls of the four operations *)
(*                 against a server that answers with any status and body. *)
(***************************************************************************)
EXTENDS Integers, Sequences, FiniteSets, Bags, TLC

VARIABLES
    message,      \* the Message value being built
    msgCalled,    \* names of the operations applied to it since Message::default()
    msgPc,        \* "building" | "serialized" | "decoded"
    msgWire,      \* serde_json's rendering of message, once serialized
    msgDecoded,   \* the result of decoding msgWire back into a Message
    interest,     \* the DetailsInterest value being built
    intId,        \* the hash given to DetailsInterest::new
    intCalled,    \* the flags whose with_* setter was called since DetailsInterest::new
    intPc,        \* "building" | "rendered"
    intJson,      \* Into<Json> of interest, once rendered
    client,       \* the Client, or NoClient before a successful Client::new
    newResult,    \* the last Client::new: its arguments and what it returned
    given,        \* the address string and token handed to the successful Client::new
    calls,        \* the calls in flight: a bag of call records
    returned      \* the outcome of the call that ended last

msgVars == <<message, msgCalled, msgPc, msgWire, msgDecoded>>
intVars == <<interest, intId, intCalled, intPc, intJson>>
cliVars == <<client, newResult, given, calls, returned>>
vars == <<message, msgCalled, msgPc, msgWire, msgDecoded,
          interest, intId, intCalled, intPc, intJson,
          client, newResult, given, calls, returned>>

(***************************************************************************)
(* Option<T> and serde_json::Value                                         *)
(***************************************************************************)
None == [some |-> FALSE]
Some(x) == [some |-> TRUE, v |-> x]

JNull == [t |-> "null"]
JBool(b) == [t |-> "bool", v |-> b]
JNum(n) == [t |-> "num", v |-> n]
JStr(s) == [t |-> "str", v |-> s]
JArr(s) == [t |-> "arr", v |-> s]
JObj(f) == [t |-> "obj", v |-> f]

Ok(x) == [ok |-> TRUE, v |-> x]
Err(e) == [ok |-> FALSE, e |-> e]

\* MessageHash = u64: unsigned (the model's values stay far below 2^64)
IsU64(n) == n >= 0

(***************************************************************************)
(* Message: the struct, its setters, and its derived Serialize/Deserialize *)
(***************************************************************************)
MessageFields == {"to", "cc", "bcc", "from", "sender", "subject", "tag", "reply_to",
                  "plain_body", "html_body", "attachments", "headers", "bounce"}

\* #[derive(Default)]: every Option field is None
MessageDefault == [f \in MessageFields |-> None]

Message_from(self, s) == [self EXCEPT !["from"] = Some(s)]
Message_to(self, to) == [self EXCEPT !["to"] = Some(to)]
Message_subject(self, s) == [self EXCEPT !["subject"] = Some(s)]
\* a text() that writes the other body field
Message_text_html(self, s) == [self EXCEPT !["html_body"] = Some(s)]
Message_text(self, s) == [self EXCEPT !["plain_body"] = Some(s)]
Message_html(self, s) == [self EXCEPT !["html_body"] = Some(s)]

\* the values the model gives to the arguments of the setters
FromArgs == {"a@example.com", "b@example.com"}
ToArgs == {<<"a@example.com">>, <<"a@example.com", "b@example.com">>}
SubjectArgs == {"Hello"}
TextArgs == {"text"}
HtmlArgs == {"<p>"}

\* the pub fields that have no setter, each with the value a caller assigns
DirectValue == [cc |-> <<"c">>, bcc |-> <<>>, sender |-> "s", tag |-> "t",
                reply_to |-> "r", attachments |-> <<(<<1, 2>>)>>,
                headers |-> 7, bounce |-> TRUE]
DirectFields == DOMAIN DirectValue

\* Serialize of the field's inner type
SerStrVec(v) == JArr([i \in 1..Len(v) |-> JStr(v[i])])
SerBytes(v) == JArr([i \in 1..Len(v) |-> JNum(v[i])])
SerBytesVec(v) == JArr([i \in 1..Len(v) |-> SerBytes(v[i])])
SerField(f, v) ==
    IF f \in {"to", "cc", "bcc"} THEN SerStrVec(v)
    ELSE IF f = "attachments" THEN SerBytesVec(v)
    ELSE IF f = "headers" THEN JNum(v)
    ELSE IF f = "bounce" THEN JBool(v)
    ELSE JStr(v)

\* a derive that renamed html_body on the wire
MessageToJsonRenamed(m) ==
    LET key(f) == IF f = "html_body" THEN "html" ELSE f
        keys == {key(f) : f \in MessageFields}
        fld(k) == IF k = "html" THEN "html_body" ELSE k
    IN JObj([k \in keys |-> IF m[fld(k)].some THEN SerField(fld(k), m[fld(k)].v) ELSE JNull])

\* #[derive(Serialize)] without skip_serializing_if: one entry per field,
\* Option::None serialized as null
MessageToJson(m) ==
    JObj([f \in MessageFields |-> IF m[f].some THEN SerField(f, m[f].v) ELSE JNull])

\* Deserialize of the field's inner type
DeStr(j) == IF j.t = "str" THEN Ok(j.v) ELSE Err("invalid type")
DeU64(j) == IF j.t = "num" /\ IsU64(j.v) THEN Ok(j.v) ELSE Err("invalid type")
DeU8(j) == IF j.t = "num" /\ j.v >= 0 /\ j.v < 256 THEN Ok(j.v) ELSE Err("invalid type")
DeBool(j) == IF j.t = "bool" THEN Ok(j.v) ELSE Err("invalid type")
DeStrVec(j) ==
    IF j.t = "arr" /\ \A i \in 1..Len(j.v) : DeStr(j.v[i]).ok
    THEN Ok([i \in 1..Len(j.v) |-> DeStr(j.v[i]).v]) ELSE Err("invalid type")
DeBytes(j) ==
    IF j.t = "arr" /\ \A i \in 1..Len(j.v) : DeU8(j.v[i]).ok
    THEN Ok([i \in 1..Len(j.v) |-> DeU8(j.v[i]).v]) ELSE Err("invalid type")
DeBytesVec(j) ==
    IF j.t = "arr" /\ \A i \in 1..Len(j.v) : DeBytes(j.v[i]).ok
    THEN Ok([i \in 1..Len(j.v) |-> DeBytes(j.v[i]).v]) ELSE Err("invalid type")
DeField(f, j) ==
    IF f \in {"to", "cc", "bcc"} THEN DeStrVec(j)
    ELSE IF f = "attachments" THEN DeBytesVec(j)
    ELSE IF f = "headers" THEN DeU64(j)
    ELSE IF f = "bounce" THEN DeBool(j)
    ELSE DeStr(j)

\* Option<T>: a missing key and null both give None
DeOption(f, obj) ==
    IF f \notin DOMAIN obj THEN Ok(None)
    ELSE IF obj[f].t = "null" THEN Ok(None)
    ELSE IF DeField(f, obj[f]).ok THEN Ok(Some(DeField(f, obj[f]).v))
    ELSE Err("invalid type")

\* #[derive(Deserialize)]: unknown keys are ignored
MessageFromJson(j) ==
    IF j.t # "obj" THEN Err("invalid type")
    ELSE IF \E f \in MessageFields : ~DeOption(f, j.v).ok THEN Err("invalid type")
    ELSE Ok([f \in MessageFields |-> DeOption(f, j.v).v])

NoJson == [t |-> "none"]
NoDecoded == [ok |-> FALSE, e |-> "none"]

MsgInit ==
    /\ message = MessageDefault
    /\ msgCalled = {}
    /\ msgPc = "building"
    /\ msgWire = NoJson
    /\ msgDecoded = NoDecoded

\* let m = Message::default();
NewMessage ==
    /\ msgPc = "decoded"
    /\ message' = MessageDefault
    /\ msgCalled' = {}
    /\ msgPc' = "building"
    /\ msgWire' = NoJson
    /\ msgDecoded' = NoDecoded
    /\ UNCHANGED <<intVars, cliVars>>

CallFrom ==
    /\ msgPc = "building"
    /\ \E s \in FromArgs : message' = Message_from(message, s)
    /\ msgCalled' = msgCalled \cup {"from"}
    /\ UNCHANGED <<msgPc, msgWire, msgDecoded, intVars, cliVars>>

CallTo ==
    /\ msgPc = "building"
    /\ \E to \in ToArgs : message' = Message_to(message, to)
    /\ msgCalled' = msgCalled \cup {"to"}
    /\ UNCHANGED <<msgPc, msgWire, msgDecoded, intVars, cliVars>>

CallSubject ==
    /\ msgPc = "building"
    /\ \E s \in SubjectArgs : message' = Message_subject(message, s)
    /\ msgCalled' = msgCalled \cup {"subject"}
    /\ UNCHANGED <<msgPc, msgWire, msgDecoded, intVars, cliVars>>

CallText ==
    /\ msgPc = "building"
    /\ \E s \in TextArgs : message' = Message_text(message, s)
    /\ msgCalled' = msgCalled \cup {"text"}
    /\ UNCHANGED <<msgPc, msgWire, msgDecoded, intVars, cliVars>>

CallHtml ==
    /\ msgPc = "building"
    /\ \E s \in HtmlArgs : message' = Message_html(message, s)
    /\ msgCalled' = msgCalled \cup {"html"}
    /\ UNCHANGED <<msgPc, msgWire, msgDecoded, intVars, cliVars>>

\* message.<field> = Some(value) on a pub field that has no setter
AssignField ==
    /\ msgPc = "building"
    /\ \E f \in DirectFields :
          /\ message' = [message EXCEPT ![f] = Some(DirectValue[f])]
          /\ msgCalled' = msgCalled \cup {f}
    /\ UNCHANGED <<msgPc, msgWire, msgDecoded, intVars, cliVars>>

\* .json(&message) in Client::send
SerializeMessage ==
    /\ msgPc = "building"
    /\ msgWire' = MessageToJson(message)
    /\ msgPc' = "serialized"
    /\ UNCHANGED <<message, msgCalled, msgDecoded, intVars, cliVars>>

\* serde_json::from_value::<Message>(wire)
DeserializeMessage ==
    /\ msgPc = "serialized"
    /\ msgDecoded' = MessageFromJson(msgWire)
    /\ msgPc' = "decoded"
    /\ UNCHANGED <<message, msgCalled, msgWire, intVars, cliVars>>

MsgNext ==
    \/ NewMessage
    \/ CallFrom
    \/ CallTo
    \/ CallSubject
    \/ CallText
    \/ CallHtml
    \/ AssignField
    \/ SerializeMessage
    \/ DeserializeMessage

(***************************************************************************)
(* DetailsInterest: new, the with_* setters, build_expansions_list and     *)
(* Into<Json>                                                              *)
(***************************************************************************)
Unit == <<>>
InterestFlags == {"status", "details", "inspection", "plain_body", "html_body",
                  "attachments", "headers", "raw_message"}

\* impl Into<DetailsInterest> for MessageHash
HashIntoInterest(id) ==
    [id |-> id, status |-> None, details |-> None, inspection |-> None,
     plain_body |-> None, html_body |-> None, attachments |-> None,
     headers |-> None, raw_message |-> None]

DetailsInterest_new(id) == HashIntoInterest(id)

\* a with_status() that flips the flag
with_status_toggle(self) ==
    [self EXCEPT !.status = IF self.status.some THEN None ELSE Some(Unit)]
with_status(self) == [self EXCEPT !.status = Some(Unit)]
with_details(self) == [self EXCEPT !.details = Some(Unit)]
with_inspection(self) == [self EXCEPT !.inspection = Some(Unit)]
with_plain_body(self) == [self EXCEPT !.plain_body = Some(Unit)]
with_html_body(self) == [self EXCEPT !.html_body = Some(Unit)]
with_headers(self) == [self EXCEPT !.headers = Some(Unit)]
with_raw_message(self) == [self EXCEPT !.raw_message = Some(Unit)]

\* the setters the impl has (there is no with_attachments)
WithFlags == {"status", "details", "inspection", "plain_body", "html_body",
              "headers", "raw_message"}
With(self, f) ==
    CASE f = "status" -> with_status(self)
      [] f = "details" -> with_details(self)
      [] f = "inspection" -> with_inspection(self)
      [] f = "plain_body" -> with_plain_body(self)
      [] f = "html_body" -> with_html_body(self)
      [] f = "headers" -> with_headers(self)
      [] f = "raw_message" -> with_raw_message(self)

\* one `if self.<flag>.is_some() { ... push(<flag>) }` block
PushIfSome(self, expansions, flag) ==
    IF self[flag].some
    THEN Some(Append(IF expansions.some THEN expansions.v ELSE <<>>, JStr(flag)))
    ELSE expansions

\* a build_expansions_list that starts from Some(vec![])
BuildExpansionsListEager(self) ==
    LET e0 == Some(<<>>)
        e1 == PushIfSome(self, e0, "status")
        e2 == PushIfSome(self, e1, "details")
        e3 == PushIfSome(self, e2, "inspection")
        e4 == PushIfSome(self, e3, "plain_body")
        e5 == PushIfSome(self, e4, "html_body")
        e6 == PushIfSome(self, e5, "headers")
    IN PushIfSome(self, e6, "raw_message")

\* the seven blocks in source order, starting from None
build_expansions_list(self) ==
    LET e0 == None
        e1 == PushIfSome(self, e0, "status")
        e2 == PushIfSome(self, e1, "details")
        e3 == PushIfSome(self, e2, "inspection")
        e4 == PushIfSome(self, e3, "plain_body")
        e5 == PushIfSome(self, e4, "html_body")
        e6 == PushIfSome(self, e5, "headers")
    IN PushIfSome(self, e6, "raw_message")

\* impl Into<Json> for DetailsInterest
InterestIntoJson(self) ==
    LET expansions == build_expansions_list(self)
    IN IF expansions.some
       THEN JObj([id |-> JNum(self.id), _expansions |-> JArr(expansions.v)])
       ELSE JObj([id |-> JNum(self.id)])

\* the message hashes the model uses
Hashes == {7, 42}

IntInit ==
    /\ interest = DetailsInterest_new(42)
    /\ intId = 42
    /\ intCalled = {}
    /\ intPc = "building"
    /\ intJson = NoJson

NewInterest ==
    /\ intPc = "rendered"
    /\ \E id \in Hashes : interest' = DetailsInterest_new(id) /\ intId' = id
    /\ intCalled' = {}
    /\ intPc' = "building"
    /\ intJson' = NoJson
    /\ UNCHANGED <<msgVars, cliVars>>

CallWith(f, next) ==
    /\ intPc = "building"
    /\ interest' = next
    /\ intCalled' = intCalled \cup {f}
    /\ UNCHANGED <<intId, intPc, intJson, msgVars, cliVars>>

CallWithStatus == CallWith("status", with_status(interest))
CallWithDetails == CallWith("details", with_details(interest))
CallWithInspection == CallWith("inspection", with_inspection(interest))
CallWithPlainBody == CallWith("plain_body", with_plain_body(interest))
CallWithHtmlBody == CallWith("html_body", with_html_body(interest))
CallWithHeaders == CallWith("headers", with_headers(interest))
CallWithRawMessage == CallWith("raw_message", with_raw_message(interest))

\* let body: Json = interest.into();
RenderInterest ==
    /\ intPc = "building"
    /\ intJson' = InterestIntoJson(interest)
    /\ intPc' = "rendered"
    /\ UNCHANGED <<interest, intId, intCalled, msgVars, cliVars>>

IntNext ==
    \/ NewInterest
    \/ CallWithStatus
    \/ CallWithDetails
    \/ CallWithInspection
    \/ CallWithPlainBody
    \/ CallWithHtmlBody
    \/ CallWithHeaders
    \/ CallWithRawMessage
    \/ RenderInterest


(***************************************************************************)
(* PostalError (src/src/error.rs) and the ways a function ends             *)
(***************************************************************************)
Network(why) == [kind |-> "Network", why |-> why]
UrlIssue(why) == [kind |-> "UrlIssue", why |-> why]
ServiceError(code, msg) == [kind |-> "Error", code |-> code, message |-> msg]
InternalServerError == [kind |-> "InternalServerError"]
ServiceUnavailableError == [kind |-> "ServiceUnavailableError"]
ExpectedAlternativeUrl == [kind |-> "ExpectedAlternativeUrl"]

\* a panic unwinds instead of returning: unreachable!(), unimplemented!()
Panic(m) == [ok |-> FALSE, panic |-> m]
IsPanic(r) == "panic" \in DOMAIN r

(***************************************************************************)
(* url::Url as Client uses it: parse and join                              *)
(***************************************************************************)
Addresses == {"not a url", "https://postal.example.com", "mailto:postal@example.com"}
Tokens == {"k1", "k2"}

\* Url::parse: an absolute URL or a ParseError
UrlParse(str) ==
    CASE str = "https://postal.example.com" ->
            Ok([scheme |-> "https", host |-> "postal.example.com", path |-> "/",
                cannot_be_a_base |-> FALSE])
      [] str = "mailto:postal@example.com" ->
            Ok([scheme |-> "mailto", host |-> "", path |-> "postal@example.com",
                cannot_be_a_base |-> TRUE])
      [] OTHER -> Err("RelativeUrlWithoutBase")

\* Url::join with a path that starts with '/': replaces the path of a
\* hierarchical base, fails on a cannot-be-a-base one
UrlJoin(base, path) ==
    IF base.cannot_be_a_base THEN Err("RelativeUrlWithCannotBeABaseBase")
    ELSE Ok([base EXCEPT !.path = path])

\* a constructor that keeps going when the address does not parse
Client_new_lenient(url, token) ==
    LET parsed == UrlParse(url)
    IN Ok([address |-> IF parsed.ok THEN parsed.v
                       ELSE [scheme |-> "", host |-> "", path |-> url,
                             cannot_be_a_base |-> TRUE],
           token |-> token])

Client_new(url, token) ==
    LET parsed == UrlParse(url)
    IN IF ~parsed.ok THEN Err(UrlIssue(parsed.e))
       ELSE Ok([address |-> parsed.v, token |-> token])

(***************************************************************************)
(* RawMessage                                                              *)
(***************************************************************************)
RawMessage_new(to, from, data) ==
    [rcpt_to |-> to, mail_from |-> from, data |-> data, bounce |-> None]

RawMessageToJson(m) ==
    JObj([mail_from |-> JStr(m.mail_from), rcpt_to |-> SerStrVec(m.rcpt_to),
          data |-> JStr(m.data),
          bounce |-> IF m.bounce.some THEN JBool(m.bounce.v) ELSE JNull])

(***************************************************************************)
(* The request each operation builds before it awaits the transport        *)
(***************************************************************************)
\* a request builder that posts to the base address when the join fails
BuildRequestFallback(self, path, body) ==
    LET address == UrlJoin(self.address, path)
    IN Ok([url |-> IF address.ok THEN address.v ELSE self.address,
           json |-> body, api_key |-> self.token])

\* self.address.join(path)?; client.post(address).json(&body).header("X-Server-API-Key", ..)
BuildRequest(self, path, body) ==
    LET address == UrlJoin(self.address, path)
    IN IF ~address.ok THEN Err(UrlIssue(address.e))
       ELSE Ok([url |-> address.v, json |-> body, api_key |-> self.token])

send_request(self, m) == BuildRequest(self, "/api/v1/send/message", MessageToJson(m))
send_raw_request(self, m) == BuildRequest(self, "/api/v1/send/raw", RawMessageToJson(m))
get_message_details_request(self, i) ==
    BuildRequest(self, "/api/v1/messages/message", InterestIntoJson(i))
get_message_deliveries_request(self, id) ==
    BuildRequest(self, "/api/v1/messages/deliveries", JObj([id |-> JNum(id)]))

(***************************************************************************)
(* api_structures: the typed decoding of a response body                   *)
(***************************************************************************)
\* a body that is not JSON at all
NotJson == [t |-> "text"]

IsNum(obj, k) == k \in DOMAIN obj /\ obj[k].t = "num"
IsStr(obj, k) == k \in DOMAIN obj /\ obj[k].t = "str"
IsObj(obj, k) == k \in DOMAIN obj /\ obj[k].t = "obj"

\* HashMap<String, u64>
IsFlags(obj, k) ==
    /\ IsObj(obj, k)
    /\ \A f \in DOMAIN obj[k].v : obj[k].v[f].t = "num" /\ IsU64(obj[k].v[f].v)

\* MessageDataTo { id: u64, token: String }
IsMessageDataTo(j) == j.t = "obj" /\ IsNum(j.v, "id") /\ IsU64(j.v.id.v) /\ IsStr(j.v, "token")

DecodeData(D, j) ==
    CASE D = "MessageSucessData" ->
            IF /\ j.t = "obj"
               /\ IsStr(j.v, "message_id")
               /\ IsObj(j.v, "messages")
               /\ \A to \in DOMAIN j.v.messages.v : IsMessageDataTo(j.v.messages.v[to])
            THEN Ok([message_id |-> j.v.message_id.v,
                     messages |-> [to \in DOMAIN j.v.messages.v |->
                                     [id |-> j.v.messages.v[to].v.id.v,
                                      token |-> j.v.messages.v[to].v.token.v]]])
            ELSE Err("invalid type")
      [] D = "HashMap" ->
            IF j.t = "obj" THEN Ok(j.v) ELSE Err("invalid type")
      [] D = "VecHashMap" ->
            IF j.t = "arr" /\ \A i \in 1..Len(j.v) : j.v[i].t = "obj"
            THEN Ok([i \in 1..Len(j.v) |-> j.v[i].v]) ELSE Err("invalid type")

\* #[serde(tag = "status", rename_all = "camelCase")] enum Responce<D>
ResponceFromJson(D, body) ==
    IF body.t # "obj" \/ ~IsStr(body.v, "status") THEN Err("invalid type")
    ELSE CASE body.v.status.v = "success" ->
                 IF /\ IsNum(body.v, "time")
                    /\ IsFlags(body.v, "flags")
                    /\ "data" \in DOMAIN body.v
                    /\ DecodeData(D, body.v.data).ok
                 THEN Ok([variant |-> "Success", data |-> DecodeData(D, body.v.data).v])
                 ELSE Err("invalid type")
           [] body.v.status.v = "parameterError" ->
                 Ok([variant |-> "ParameterError"])
           [] body.v.status.v = "error" ->
                 IF /\ IsNum(body.v, "time")
                    /\ IsFlags(body.v, "flags")
                    /\ IsObj(body.v, "data")
                    /\ IsStr(body.v.data.v, "code")
                    /\ IsStr(body.v.data.v, "message")
                 THEN Ok([variant |-> "Error",
                          data |-> [code |-> body.v.data.v.code.v,
                                    message |-> body.v.data.v.message.v]])
                 ELSE Err("invalid type")
           [] OTHER -> Err("unknown variant")

(***************************************************************************)
(* check_status, check_responce, handle_send                               *)
(***************************************************************************)
\* a triage that misses PERMANENT_REDIRECT and lets it through as OK
check_status_no308(sc) ==
    CASE sc = 200 \/ sc = 308 -> Ok(Unit)
      [] sc = 500 -> Err(InternalServerError)
      [] sc = 301 -> Err(ExpectedAlternativeUrl)
      [] sc = 503 -> Err(ServiceUnavailableError)
      [] OTHER -> Panic("unreachable")

check_status(sc) ==
    CASE sc = 200 -> Ok(Unit)
      [] sc = 500 -> Err(InternalServerError)
      [] sc = 301 \/ sc = 308 -> Err(ExpectedAlternativeUrl)
      [] sc = 503 -> Err(ServiceUnavailableError)
      [] OTHER -> Panic("unreachable")

\* a check_responce that fills message from data.code
check_responce_code_twice(data) ==
    CASE data.variant = "Success" -> Ok(data.data)
      [] data.variant = "Error" -> Err(ServiceError(data.data.code, data.data.code))
      [] data.variant = "ParameterError" -> Panic("unimplemented")

check_responce(data) ==
    CASE data.variant = "Success" -> Ok(data.data)
      [] data.variant = "Error" -> Err(ServiceError(data.data.code, data.data.message))
      [] data.variant = "ParameterError" -> Panic("unimplemented")

\* the orders in which a HashMap over these keys can iterate
Orders(keys) ==
    {o \in [1..Cardinality(keys) -> keys] : \A i, j \in DOMAIN o : i # j => o[i] # o[j]}

\* a map that pairs every recipient with the id of the first record
SendResultsFirstId(messages, order) ==
    [i \in 1..Len(order) |-> [to |-> order[i], id |-> messages[order[1]].id]]

\* data.messages.into_iter().map(|(to, m)| SendResult { to, id: m.id }).collect()
SendResults(messages, order) ==
    [i \in 1..Len(order) |-> [to |-> order[i], id |-> messages[order[i]].id]]

\* what a handler hands back: the result (or panic), whether res.json() ran,
\* and what check_responce gave when it ran
Handled(res, parsed, checked) == [res |-> res, parsed |-> parsed, checked |-> checked]
NotChecked == [ok |-> FALSE, e |-> [kind |-> "not checked"]]

\* check_status(..)?; res.json().await?; check_responce(..)?
DecodeResponse(D, resp) ==
    LET st == check_status(resp.status)
    IN IF ~st.ok THEN Handled(st, FALSE, NotChecked)
       ELSE LET data == ResponceFromJson(D, resp.body)
            IN IF ~data.ok THEN Handled(Err(Network("decode")), TRUE, NotChecked)
               ELSE Handled(check_responce(data.v), TRUE, check_responce(data.v))

handle_send(resp, order) ==
    LET h == DecodeResponse("MessageSucessData", resp)
    IN IF ~h.res.ok THEN h
       ELSE Handled(Ok(SendResults(h.res.v.messages, order)), h.parsed, h.checked)

\* the part of get_message_details / get_message_deliveries after the await
get_message_details_handle(resp) == DecodeResponse("HashMap", resp)
get_message_deliveries_handle(resp) == DecodeResponse("VecHashMap", resp)

\* the iteration orders handle_send can meet for this response
SendOrders(resp) ==
    LET h == DecodeResponse("MessageSucessData", resp)
    IN IF h.res.ok THEN Orders(DOMAIN h.res.v.messages) ELSE {<<>>}

(***************************************************************************)
(* The server's answers                                                    *)
(***************************************************************************)
Statuses == {200, 500, 301, 308, 503, 404}

Envelope(status, data) ==
    JObj([status |-> JStr(status), time |-> JNum(1), flags |-> JObj(<<>>), data |-> data])
MessagesPayload(messages) ==
    JObj([message_id |-> JStr("m1"), messages |-> JObj(messages)])
Record(id) == JObj([id |-> JNum(id), token |-> JStr("t")])

Bodies == <<
    Envelope("success", MessagesPayload(<<>>)),
    Envelope("success", MessagesPayload([r \in {"a@example.com"} |-> Record(7)])),
    Envelope("success", MessagesPayload([a |-> Record(7), b |-> Record(8)])),
    Envelope("success", JObj([id |-> JNum(7), status |-> JObj([status |-> JStr("Sent")])])),
    Envelope("success", JArr(<<JObj([id |-> JNum(1), status |-> JStr("Sent")])>>)),
    Envelope("error", JObj([code |-> JStr("InvalidRecipients"), message |-> JStr("bad to")])),
    JObj([status |-> JStr("parameterError")]),
    JObj([status |-> JStr("parameter-error"), time |-> JNum(1), flags |-> JObj(<<>>),
          data |-> JObj(<<>>)]),
    NotJson >>

(***************************************************************************)
(* The client: construction and calls                                      *)
(***************************************************************************)
NoClient == [exists |-> FALSE]
NoResult == [url |-> "", token |-> "", res |-> [ok |-> FALSE, e |-> [kind |-> "none"]]]
NoGiven == [url |-> "", token |-> ""]
NoReturn == [op |-> "none"]
NoResp == [status |-> 0, body |-> NotJson]

\* the number of calls that can be in flight on the client at once
MaxCalls == 2

\* the arguments the model passes to each operation
SendMessages == {MessageDefault, Message_text(Message_to(MessageDefault, <<"a">>), "a")}
SendRawMessages == {RawMessage_new(<<"a">>, "s", "ZGF0YQ==")}
Interests == {DetailsInterest_new(42), with_status(DetailsInterest_new(42))}
DeliveryIds == {42}

CliInit ==
    /\ client = NoClient
    /\ newResult = NoResult
    /\ given = NoGiven
    /\ calls = EmptyBag
    /\ returned = NoReturn

\* Client::new(url, token)
ClientNew ==
    /\ ~client.exists
    /\ \E url \in Addresses, token \in Tokens :
          /\ newResult' = [url |-> url, token |-> token, res |-> Client_new(url, token)]
          /\ IF Client_new(url, token).ok
             THEN /\ client' = [exists |-> TRUE, self |-> Client_new(url, token).v]
                  /\ given' = [url |-> url, token |-> token]
             ELSE UNCHANGED <<client, given>>
    /\ UNCHANGED <<calls, returned, msgVars, intVars>>

\* the part of an operation up to `.send().await`: the join fails and the
\* call returns, or the one request goes out and the call awaits the response
Begin(op, req) ==
    /\ client.exists
    /\ BagCardinality(calls) < MaxCalls
    /\ IF req.ok
       THEN /\ calls' = calls (+) SetToBag({[op |-> op, request |-> req.v, requests |-> 1]})
            /\ UNCHANGED returned
       ELSE /\ returned' = [op |-> op, requests |-> 0, resp |-> NoResp,
                            res |-> req, parsed |-> FALSE, checked |-> NotChecked,
                            order |-> <<>>]
            /\ UNCHANGED calls
    /\ UNCHANGED <<client, newResult, given, msgVars, intVars>>

CallSend == \E m \in SendMessages :
    Begin("send", send_request(client.self, m))
CallSendRaw == \E m \in SendRawMessages :
    Begin("send_raw", send_raw_request(client.self, m))
CallGetMessageDetails == \E i \in Interests :
    Begin("get_message_details", get_message_details_request(client.self, i))
CallGetMessageDeliveries == \E id \in DeliveryIds :
    Begin("get_message_deliveries", get_message_deliveries_request(client.self, id))

\* `.send().await?` fails: reqwest::Error becomes PostalError::Network
TransportFails ==
    \E c \in BagToSet(calls) :
        /\ returned' = [op |-> c.op, requests |-> c.requests,
                        resp |-> NoResp, res |-> Err(Network("transport")),
                        parsed |-> FALSE, checked |-> NotChecked, order |-> <<>>]
        /\ calls' = calls (-) SetToBag({c})
        /\ UNCHANGED <<client, newResult, given, msgVars, intVars>>

\* the response arrives and the rest of the operation runs
End(c, resp, h, order) ==
    /\ returned' = [op |-> c.op, requests |-> c.requests,
                    resp |-> resp, res |-> h.res, parsed |-> h.parsed,
                    checked |-> h.checked, order |-> order]
    /\ calls' = calls (-) SetToBag({c})
    /\ UNCHANGED <<client, newResult, given, msgVars, intVars>>

\* the bodies the server sends with a status: every body with 200, and a
\* success envelope, an error envelope and a non-JSON body with the others
BodiesFor(status) == IF status = 200 THEN DOMAIN Bodies ELSE {2, 6, 9}

SendResponds ==
    \E c \in BagToSet(calls), status \in Statuses :
        \E b \in BodiesFor(status) :
            LET resp == [status |-> status, body |-> Bodies[b]]
            IN /\ c.op \in {"send", "send_raw"}
               /\ \E order \in SendOrders(resp) : End(c, resp, handle_send(resp, order), order)

DetailsResponds ==
    \E c \in BagToSet(calls), status \in Statuses :
        \E b \in BodiesFor(status) :
            LET resp == [status |-> status, body |-> Bodies[b]]
            IN /\ c.op = "get_message_details"
               /\ End(c, resp, get_message_details_handle(resp), <<>>)

DeliveriesResponds ==
    \E c \in BagToSet(calls), status \in Statuses :
        \E b \in BodiesFor(status) :
            LET resp == [status |-> status, body |-> Bodies[b]]
            IN /\ c.op = "get_message_deliveries"
               /\ End(c, resp, get_message_deliveries_handle(resp), <<>>)

CliNext ==
    \/ ClientNew
    \/ CallSend
    \/ CallSendRaw
    \/ CallGetMessageDetails
    \/ CallGetMessageDeliveries
    \/ TransportFails
    \/ SendResponds
    \/ DetailsResponds
    \/ DeliveriesResponds

(***************************************************************************)
(* The specifications                                                      *)
(***************************************************************************)
Init == MsgInit /\ IntInit /\ CliInit

\* the client and its calls
Next == CliNext
Spec == Init /\ [][Next]_vars

\* the Message builder and its wire form
SpecMessage == Init /\ [][MsgNext]_vars

\* the DetailsInterest builder and its rendering
SpecInterest == Init /\ [][IntNext]_vars

(***************************************************************************)
(* The claims                                                              *)
(***************************************************************************)
Ended == returned.op # "none"
Responded == Ended /\ returned.resp.status # 0
EnvelopeTag(body) ==
    IF body.t = "obj" /\ IsStr(body.v, "status") THEN body.v.status.v ELSE "none"

\* C1: status triage comes before body parsing and decides alone: 500 gives
\* InternalServerError, 503 ServiceUnavailableError, 301 and 308
\* ExpectedAlternativeUrl, whatever the body is, and the body is parsed
\* exactly when the status is 200.
C1_StatusTriage ==
    Responded =>
        /\ returned.resp.status = 500 => returned.res = Err(InternalServerError)
        /\ returned.resp.status = 503 => returned.res = Err(ServiceUnavailableError)
        /\ returned.resp.status \in {301, 308} => returned.res = Err(ExpectedAlternativeUrl)
        /\ returned.parsed <=> returned.resp.status = 200

\* a 503 that carries a well-formed success envelope
C1_Witness ==
    /\ Responded
    /\ returned.op = "send"
    /\ returned.resp.status = 503
    /\ EnvelopeTag(returned.resp.body) = "success"
    /\ returned.res = Err(ServiceUnavailableError)
    /\ ~returned.parsed

MalformedResponse == [kind |-> "MalformedResponse"]

\* C2: on a status other than 200, 500, 301, 308, 503, or on a 200 whose
\* envelope is the parameter-error shape, the operation returns a
\* MalformedResponse failure to its caller (it does not end any other way).
C2_MalformedReturned ==
    (/\ Responded
     /\ \/ returned.resp.status \notin {200, 500, 301, 308, 503}
        \/ /\ returned.resp.status = 200
           /\ EnvelopeTag(returned.resp.body) = "parameterError")
    => /\ ~IsPanic(returned.res)
       /\ returned.res = Err(MalformedResponse)

FlagOrder == <<"status", "details", "inspection", "plain_body", "html_body",
               "headers", "raw_message">>
IsCalled(f) == f \in intCalled
CalledInOrder == SelectSeq(FlagOrder, IsCalled)

\* C4: the rendering is an object whose id is the given hash; with no flag
\* set it has no _expansions key; with flags set, _expansions is the array of
\* exactly the set flags, once each, in the fixed order, never "attachments".
C4_Rendering ==
    intPc = "rendered" =>
        /\ intJson.t = "obj"
        /\ intJson.v.id = JNum(intId)
        /\ intCalled = {} => DOMAIN intJson.v = {"id"}
        /\ intCalled # {} =>
              /\ DOMAIN intJson.v = {"id", "_expansions"}
              /\ intJson.v._expansions.t = "arr"
              /\ Len(intJson.v._expansions.v) = Len(CalledInOrder)
              /\ \A i \in 1..Len(CalledInOrder) :
                    intJson.v._expansions.v[i] = JStr(CalledInOrder[i])
              /\ \A i \in 1..Len(intJson.v._expansions.v) :
                    intJson.v._expansions.v[i] # JStr("attachments")

\* a rendering with three flags, and one with none is reached on the way
C4_Witness ==
    /\ intPc = "rendered"
    /\ intCalled = {"raw_message", "status", "plain_body"}
    /\ Len(intJson.v._expansions.v) = 3

\* C5: on a 200, a success envelope with a payload of the operation's type
\* unwraps to exactly that payload and never to a failure; an error envelope
\* gives the Error failure with exactly the service's code and message and
\* never a success.
C5_EnvelopeDecoding ==
    (Responded /\ returned.resp.status = 200) =>
        LET body == returned.resp.body
            data == body.v.data
        IN /\ (EnvelopeTag(body) = "success" /\ returned.op = "get_message_details"
                  /\ data.t = "obj") =>
                 /\ returned.checked = Ok(data.v)
                 /\ returned.res = Ok(data.v)
           /\ (EnvelopeTag(body) = "success" /\ returned.op = "get_message_deliveries"
                  /\ data.t = "arr") =>
                 /\ returned.checked = Ok([i \in 1..Len(data.v) |-> data.v[i].v])
                 /\ returned.res = returned.checked
           /\ (EnvelopeTag(body) = "success" /\ returned.op \in {"send", "send_raw"}
                  /\ data.t = "obj" /\ "messages" \in DOMAIN data.v) =>
                 /\ returned.checked =
                       Ok([message_id |-> data.v.message_id.v,
                           messages |-> [to \in DOMAIN data.v.messages.v |->
                                           [id |-> data.v.messages.v[to].v.id.v,
                                            token |-> data.v.messages.v[to].v.token.v]]])
                 /\ returned.res.ok
           /\ EnvelopeTag(body) = "error" =>
                 /\ returned.checked = Err(ServiceError(data.v.code.v, data.v.message.v))
                 /\ returned.res = returned.checked

\* an error envelope decoded on a 200
C5_Witness ==
    /\ Responded
    /\ returned.resp.status = 200
    /\ returned.op = "get_message_deliveries"
    /\ EnvelopeTag(returned.resp.body) = "error"
    /\ returned.res = Err(ServiceError("InvalidRecipients", "bad to"))

\* C6: a send or send_raw that succeeds on a payload of n recipients returns
\* exactly n SendResults, one per recipient, none twice, each with the id of
\* that recipient's record.
C6_OnePerRecipient ==
    (Ended /\ returned.op \in {"send", "send_raw"} /\ returned.res.ok) =>
        LET raw == returned.resp.body.v.data.v.messages.v
            rs == returned.res.v
        IN /\ Len(rs) = Cardinality(DOMAIN raw)
           /\ {rs[i].to : i \in 1..Len(rs)} = DOMAIN raw
           /\ \A i, j \in 1..Len(rs) : i # j => rs[i].to # rs[j].to
           /\ \A i \in 1..Len(rs) : rs[i].id = raw[rs[i].to].v.id.v

\* two recipients, the map iterated with b first
C6_Witness ==
    /\ Ended
    /\ returned.op = "send_raw"
    /\ returned.res.ok
    /\ Len(returned.res.v) = 2
    /\ returned.res.v[1].to = "b"

C8_ClientImmutable ==
    /\ newResult.url # "" =>
          /\ newResult.res.ok <=> UrlParse(newResult.url).ok
          /\ ~newResult.res.ok => newResult.res.e.kind = "UrlIssue" /\ ~client.exists
          /\ newResult.res.ok =>
                /\ client.exists
                /\ given = [url |-> newResult.url, token |-> newResult.token]
    /\ client.exists =>
          /\ UrlParse(given.url).ok
          /\ client.self.address = UrlParse(given.url).v
          /\ client.self.address.scheme # ""
          /\ client.self.token = given.token
    /\ \A c \in BagToSet(calls) : c.request.api_key = given.token

\* calls have ended and others are in flight on the client
C8_Witness ==
    /\ client.exists
    /\ Ended
    /\ IsPanic(returned.res)
    /\ BagCardinality(calls) = 2

\* C9: every with_* setter is idempotent and any two commute, on the value
\* and on its rendering; the value built is the one the set of flags called
\* determines.
C9_IdempotentCommutative ==
    /\ \A f \in WithFlags :
          /\ With(With(interest, f), f) = With(interest, f)
          /\ InterestIntoJson(With(With(interest, f), f)) = InterestIntoJson(With(interest, f))
    /\ \A f, g \in WithFlags :
          /\ With(With(interest, f), g) = With(With(interest, g), f)
          /\ InterestIntoJson(With(With(interest, f), g))
                = InterestIntoJson(With(With(interest, g), f))
    /\ interest.id = intId
    /\ \A f \in InterestFlags : interest[f].some <=> f \in intCalled

\* several setters were called and the value rendered
C9_Witness ==
    /\ intPc = "rendered"
    /\ {"status", "headers"} \subseteq intCalled
    /\ interest.status.some /\ interest.headers.some

\* the field a setter writes
SetterField == [from |-> "from", to |-> "to", subject |-> "subject",
                text |-> "plain_body", html |-> "html_body"]
Setters == DOMAIN SetterField

FrameOf(after, field, value) ==
    /\ after[field] = Some(value)
    /\ \A g \in MessageFields \ {field} : after[g] = message[g]

\* C10: each setter leaves exactly its own field present with the given value
\* and the other twelve fields as they were; from Message::default(), a field
\* no setter was called for is absent.
C10_SetterFrame ==
    /\ \A s \in FromArgs : FrameOf(Message_from(message, s), "from", s)
    /\ \A t \in ToArgs : FrameOf(Message_to(message, t), "to", t)
    /\ \A s \in SubjectArgs : FrameOf(Message_subject(message, s), "subject", s)
    /\ \A s \in TextArgs : FrameOf(Message_text(message, s), "plain_body", s)
    /\ \A s \in HtmlArgs : FrameOf(Message_html(message, s), "html_body", s)
    /\ msgCalled \subseteq Setters =>
          \A f \in MessageFields :
              message[f].some <=> \E st \in msgCalled : SetterField[st] = f

\* from() and text() were called on the default message and nothing else
C10_Witness ==
    /\ msgCalled = {"from", "text"}
    /\ message["from"] = Some("b@example.com")
    /\ message["plain_body"] = Some("text")
    /\ ~message["html_body"].some

====
